---- MODULE Spec2Model ----
(***************************************************************************)
(* Model of the Inbox route loader of the papermerge web client            *)
(* (ui2/src/pages/Inbox.tsx).  A load resolves the current user, reads the *)
(* remembered page size from the store, dispatches setCurrentNode for the  *)
(* main panel, dispatches fetchPaginatedNodes and returns                  *)
(* {folderId, urlParams}.  Several loads may be in flight at once; they    *)
(* interleave only at the two awaits.                                      *)
(*                                                                         *)
(* Text is modelled as sequences of one-character strings, JavaScript      *)
(* values as tagged records.                                               *)
(***************************************************************************)
EXTENDS Integers, Sequences, FiniteSets, TLC

\* ------------------------------------------------------------------ bounds

\* Number of navigations (loader invocations) in one behaviour.
NLoads == 2

Loads == 1..NLoads

\* ------------------------------------------------------- JavaScript values

Undefined == [t |-> "undefined"]
Null == [t |-> "null"]
Num(n) == [t |-> "number", n |-> n]
Str(s) == [t |-> "string", s |-> s]

\* ToBoolean, as applied by `a || b` and `if (a)`.
Truthy(v) ==
  CASE v.t = "undefined" -> FALSE
    [] v.t = "null" -> FALSE
    [] v.t = "number" -> v.n # 0
    [] v.t = "string" -> v.s # ""
    [] OTHER -> TRUE

\* a || b
OrElse(a, b) == IF Truthy(a) THEN a ELSE b

\* ------------------------------------------------------------------- text

Digit(d) == <<"0", "1", "2", "3", "4", "5", "6", "7", "8", "9">>[d + 1]

RECURSIVE NatToString(_)
NatToString(n) ==
  IF n < 10 THEN <<Digit(n)>> ELSE NatToString(n \div 10) \o <<Digit(n % 10)>>

\* Number::toString for an integer, as used by the template literal.
NumberToString(n) == IF n < 0 THEN <<"-">> \o NatToString(0 - n) ELSE NatToString(n)

\* Index of the first occurrence of character c in s, 0 when there is none.
IndexOf(s, c) ==
  IF \E i \in 1..Len(s) : s[i] = c
  THEN CHOOSE i \in 1..Len(s) : s[i] = c /\ \A j \in 1..(i - 1) : s[j] # c
  ELSE 0

\* s.split(c)
RECURSIVE Split(_, _)
Split(s, c) ==
  LET i == IndexOf(s, c)
  IN IF i = 0 THEN <<s>>
     ELSE <<SubSeq(s, 1, i - 1)>> \o Split(SubSeq(s, i + 1, Len(s)), c)

\* application/x-www-form-urlencoded decoding of one name or value: "+" is a
\* space.  The model's alphabet has no "%", so percent-decoding changes nothing.
PlusToSpace(s) == [i \in 1..Len(s) |-> IF s[i] = "+" THEN " " ELSE s[i]]

\* One "name=value" piece: split at the first "=", the value is empty without one.
ParsePair(piece) ==
  LET i == IndexOf(piece, "=")
  IN IF i = 0 THEN <<PlusToSpace(piece), <<>>>>
     ELSE <<PlusToSpace(SubSeq(piece, 1, i - 1)),
            PlusToSpace(SubSeq(piece, i + 1, Len(piece)))>>

RECURSIVE ParsePieces(_)
ParsePieces(pieces) ==
  IF pieces = <<>> THEN <<>>
  ELSE IF Head(pieces) = <<>> THEN ParsePieces(Tail(pieces))
  ELSE <<ParsePair(Head(pieces))>> \o ParsePieces(Tail(pieces))

\* The application/x-www-form-urlencoded parser: the text is split on "&",
\* empty pieces are skipped, every piece becomes a <<name, value>> pair.
ParseUrlEncoded(text) == ParsePieces(Split(text, "&"))

\* new URLSearchParams(init) of a string: one leading "?" is dropped, the rest
\* is parsed.
URLSearchParams(init) ==
  ParseUrlEncoded(IF init # <<>> /\ Head(init) = "?" THEN Tail(init) ELSE init)

\* new URL(href).searchParams: the query is what lies between the first "?"
\* and the fragment, which starts at the first "#"; it is parsed as it stands,
\* a second "?" being part of the first name.  The model's URLs have no tab,
\* newline, leading or trailing space, which the URL parser would strip.
SearchParamsOfUrl(href) ==
  LET h == IndexOf(href, "#")
      noFragment == IF h = 0 THEN href ELSE SubSeq(href, 1, h - 1)
      q == IndexOf(noFragment, "?")
  IN IF q = 0 THEN <<>>
     ELSE ParseUrlEncoded(SubSeq(noFragment, q + 1, Len(noFragment)))

\* URLSearchParams.has(name), and URLSearchParams.get(name): the first value
\* under that name, or null.
HasParam(sp, name) == \E i \in 1..Len(sp) : sp[i][1] = name
GetParam(sp, name) ==
  IF HasParam(sp, name)
  THEN sp[CHOOSE i \in 1..Len(sp) :
            sp[i][1] = name /\ \A j \in 1..(i - 1) : sp[j][1] # name][2]
  ELSE Null

\* ----------------------------------------------------------------- inputs

\* INITIAL_PAGE_SIZE of "@/cconstants": the page size asked for when none is
\* remembered.
INITIAL_PAGE_SIZE == 5

\* Values of mainPanel.commander?.lastPageSize a load can find in the store.
LastPageSizes == {Undefined, Num(0 - 12), Num(0), Num(30)}

\* The signed-in user getCurrentUser can resolve to.
Users == {[inbox_folder_id |-> "inbox-1"], [inbox_folder_id |-> "inbox-2"]}

\* http://x/inbox
UrlPlain ==
  <<"h", "t", "t", "p", ":", "/", "/", "x", "/", "i", "n", "b", "o", "x">>

\* http://x/f??z=1&page_number=3&q=a+b&&page_size=7&page_size#p=1
UrlQuery ==
  <<"h", "t", "t", "p", ":", "/", "/", "x", "/", "f", "?", "?", "z", "=", "1", "&",
    "p", "a", "g", "e", "_", "n", "u", "m", "b", "e", "r", "=", "3", "&", "q", "=",
    "a", "+", "b", "&", "&", "p", "a", "g", "e", "_", "s", "i", "z", "e", "=", "7",
    "&", "p", "a", "g", "e", "_", "s", "i", "z", "e", "#", "p", "=", "1">>

\* The navigations the router starts, each with its params.folderId (no route
\* parameter, an empty one, an id) and its request.url.
Navigations ==
  { [folderId |-> Undefined, url |-> UrlQuery],
    [folderId |-> Str(""), url |-> UrlPlain],
    [folderId |-> Str("f-42"), url |-> UrlQuery] }

PageNumberKey == <<"p", "a", "g", "e", "_", "n", "u", "m", "b", "e", "r">>
PageSizeKey == <<"p", "a", "g", "e", "_", "s", "i", "z", "e">>

Panels == {"main", "secondary"}

\* ------------------------------------------------------------ loader steps

\* `page_number=0&page_size=`: pages counted from zero.
QueryPrefixZeroBased ==
  <<"p", "a", "g", "e", "_", "n", "u", "m", "b", "e", "r", "=", "0", "&",
    "p", "a", "g", "e", "_", "s", "i", "z", "e", "=">>

\* `page_number=1&page_size=` of the template literal.
QueryPrefix ==
  <<"p", "a", "g", "e", "_", "n", "u", "m", "b", "e", "r", "=", "1", "&",
    "p", "a", "g", "e", "_", "s", "i", "z", "e", "=">>

\* pageSize ?? INITIAL_PAGE_SIZE in place of pageSize || INITIAL_PAGE_SIZE.
FetchUrlParamsNullish(pageSize) ==
  URLSearchParams(QueryPrefix \o NumberToString(
    (IF pageSize.t \in {"undefined", "null"} THEN Num(INITIAL_PAGE_SIZE) ELSE pageSize).n))

\* The urlParams sent to the fetch, built from the page size read from the store.
FetchUrlParams(pageSize) ==
  URLSearchParams(QueryPrefix \o NumberToString(OrElse(pageSize, Num(INITIAL_PAGE_SIZE)).n))

\* if (params.folderId !== undefined) in place of if (params.folderId).
ResolveFolderIdDefined(folderParam, user) ==
  IF folderParam.t = "string" THEN folderParam.s ELSE user.inbox_folder_id

\* if (params.folderId) folderId = params.folderId else folderId = user.inbox_folder_id
ResolveFolderId(folderParam, user) ==
  IF Truthy(folderParam) THEN folderParam.s ELSE user.inbox_folder_id

\* The node handed to setCurrentNode.
FolderNode(folderId) == [id |-> folderId, ctype |-> "folder", breadcrumb |-> Null]

\* The two dispatches of one load, in program order.
SetCurrentNodeCall(l, folderId) ==
  [op |-> "setCurrentNode", load |-> l, panel |-> "main", node |-> FolderNode(folderId),
   folderId |-> folderId, urlParams |-> <<>>]
FetchPaginatedNodesCall(l, folderId, urlParams) ==
  [op |-> "fetchPaginatedNodes", load |-> l, panel |-> "main", node |-> Null,
   folderId |-> folderId, urlParams |-> urlParams]

\* return {folderId, urlParams}: the local urlParams built for the fetch.
LoaderResultShorthand(folderId, href, fetchParams) ==
  [folderId |-> folderId, urlParams |-> fetchParams]

\* return {folderId, urlParams: url.searchParams}
LoaderResult(folderId, href, fetchParams) ==
  [folderId |-> folderId, urlParams |-> SearchParamsOfUrl(href)]

NoResult == [folderId |-> "", urlParams |-> <<"none">>]

\* ------------------------------------------------- collaborators of the loader

\* How the promise of getCurrentUser() can settle.
UserOutcomes == {"fulfilled", "rejected"}

\* How the promise of dispatch(fetchPaginatedNodes(...)) can settle.
FetchOutcomes == {"fulfilled", "rejected"}

\* Reducer of setCurrentNode: the panel named in the payload shows the node.
SetCurrentNodeReducer(nodes, payload) == [nodes EXCEPT ![payload.panel] = payload.node]

RECURSIVE ParseNat(_)
ParseNat(s) ==
  IF s = <<>> THEN 0
  ELSE 10 * ParseNat(SubSeq(s, 1, Len(s) - 1))
       + (CHOOSE d \in 0..9 : Digit(d) = s[Len(s)])
ParseInt(s) == IF Head(s) = "-" THEN 0 - ParseNat(Tail(s)) ELSE ParseNat(s)

\* A fulfilled listing fetch remembers the page size of the page it loaded.
FetchFulfilledPageSize(urlParams) == Num(ParseInt(GetParam(urlParams, PageSizeKey)))

\* ------------------------------------------------------------------ state

VARIABLES
  pc,           \* per load: "idle", "awaitUser", "awaitFetch", "returned", "failed"
  folderParam,  \* per load: params.folderId
  requestUrl,   \* per load: request.url
  userPromise,  \* per load: promise of getCurrentUser
  fetchPromise, \* per load: promise of the dispatched fetchPaginatedNodes
  pageSize,     \* per load: the local pageSize
  folderId,     \* per load: the local folderId
  result,       \* per load: the value the loader returned
  sessionUser,  \* the user getCurrentUser resolves to
  currentNode,  \* store: current node of each panel
  lastPageSize, \* store: mainPanel.commander?.lastPageSize
  calls,        \* every dispatch made so far, in order
  overwritten   \* history: loads whose selection another load replaced while
                \* they were waiting for their fetch

vars ==
  <<pc, folderParam, requestUrl, userPromise, fetchPromise, pageSize, folderId, result,
    sessionUser, currentNode, lastPageSize, calls, overwritten>>

\* A later navigation has started: the dispatch of setCurrentNode is skipped.
DispatchesUnlessStale(l, fid, urlParams) ==
  IF \E k \in DOMAIN pc : k > l /\ pc[k] # "idle"
  THEN <<FetchPaginatedNodesCall(l, fid, urlParams)>>
  ELSE <<SetCurrentNodeCall(l, fid), FetchPaginatedNodesCall(l, fid, urlParams)>>

\* The fetch dispatched before the selection.
DispatchesFetchFirst(l, fid, urlParams) ==
  <<FetchPaginatedNodesCall(l, fid, urlParams), SetCurrentNodeCall(l, fid)>>

\* The dispatches of one load, in program order.
Dispatches(l, fid, urlParams) ==
  <<SetCurrentNodeCall(l, fid), FetchPaginatedNodesCall(l, fid, urlParams)>>

Init ==
  /\ pc = [l \in Loads |-> "idle"]
  /\ folderParam = [l \in Loads |-> Undefined]
  /\ requestUrl = [l \in Loads |-> <<>>]
  /\ userPromise = [l \in Loads |-> "none"]
  /\ fetchPromise = [l \in Loads |-> "none"]
  /\ pageSize = [l \in Loads |-> Undefined]
  /\ folderId = [l \in Loads |-> ""]
  /\ result = [l \in Loads |-> NoResult]
  /\ sessionUser \in Users
  /\ currentNode = [p \in Panels |-> Null]
  /\ lastPageSize \in LastPageSizes
  /\ calls = <<>>
  /\ overwritten = {}

\* The router calls loader({params, request}): the URL is parsed and
\* getCurrentUser is called; the loader suspends on its promise.  Navigations
\* start in the order of their numbers.
Navigate(l) ==
  /\ pc[l] = "idle"
  /\ \A k \in Loads : k < l => pc[k] # "idle"
  /\ \E nav \in Navigations :
       /\ folderParam' = [folderParam EXCEPT ![l] = nav.folderId]
       /\ requestUrl' = [requestUrl EXCEPT ![l] = nav.url]
  /\ userPromise' = [userPromise EXCEPT ![l] = "pending"]
  /\ pc' = [pc EXCEPT ![l] = "awaitUser"]
  /\ UNCHANGED <<fetchPromise, pageSize, folderId, result, sessionUser, currentNode,
                 lastPageSize, calls, overwritten>>

\* getCurrentUser fulfils and the loader resumes with the user: it reads the
\* store, builds the fetch parameters, chooses the folder, dispatches
\* setCurrentNode and then fetchPaginatedNodes, and suspends on the fetch.  No
\* await lies between these statements, so they run as one step.  The
\* settlement of getCurrentUser writes nothing to the store, so it is taken
\* together with the resumption.
LoaderAfterUser(l) ==
  /\ pc[l] = "awaitUser"
  /\ userPromise[l] = "pending"
  /\ "fulfilled" \in UserOutcomes
  /\ userPromise' = [userPromise EXCEPT ![l] = "fulfilled"]
  /\ pageSize' = [pageSize EXCEPT ![l] = lastPageSize]
  /\ LET urlParams == FetchUrlParams(pageSize'[l])
         fid == ResolveFolderId(folderParam[l], sessionUser)
         ds == Dispatches(l, fid, urlParams)
         setNodes == SelectSeq(ds, LAMBDA c : c.op = "setCurrentNode")
     IN /\ folderId' = [folderId EXCEPT ![l] = fid]
        /\ currentNode' =
             IF setNodes = <<>> THEN currentNode
             ELSE SetCurrentNodeReducer(currentNode, setNodes[Len(setNodes)])
        /\ calls' = calls \o ds
        /\ overwritten' =
             IF setNodes = <<>> THEN overwritten
             ELSE overwritten \cup
                    {k \in Loads : pc[k] = "awaitFetch" /\ folderId[k] # fid}
  /\ fetchPromise' = [fetchPromise EXCEPT ![l] = "pending"]
  /\ pc' = [pc EXCEPT ![l] = "awaitFetch"]
  /\ UNCHANGED <<folderParam, requestUrl, result, sessionUser, lastPageSize>>

\* The selection is dispatched from the route parameter alone, before the user
\* is awaited.
LoaderUserThrowAfterSelect(l) ==
  /\ pc[l] = "awaitUser"
  /\ userPromise[l] = "pending"
  /\ userPromise' = [userPromise EXCEPT ![l] = "rejected"]
  /\ pc' = [pc EXCEPT ![l] = "failed"]
  /\ LET fid == ResolveFolderId(folderParam[l], [inbox_folder_id |-> ""])
     IN /\ currentNode' = SetCurrentNodeReducer(currentNode, SetCurrentNodeCall(l, fid))
        /\ calls' = Append(calls, SetCurrentNodeCall(l, fid))
  /\ UNCHANGED <<folderParam, requestUrl, fetchPromise, pageSize, folderId, result,
                 sessionUser, lastPageSize, overwritten>>

\* getCurrentUser rejects: the await throws and the loader's promise rejects.
LoaderUserThrow(l) ==
  /\ pc[l] = "awaitUser"
  /\ userPromise[l] = "pending"
  /\ "rejected" \in UserOutcomes
  /\ userPromise' = [userPromise EXCEPT ![l] = "rejected"]
  /\ pc' = [pc EXCEPT ![l] = "failed"]
  /\ UNCHANGED <<folderParam, requestUrl, fetchPromise, pageSize, folderId, result,
                 sessionUser, currentNode, lastPageSize, calls, overwritten>>

\* The listing fetch fulfils: the store remembers the page size it loaded and
\* the promise the loader waits for is fulfilled.  The loader has not resumed
\* yet; other callbacks run before it does.
FetchFulfilled(l) ==
  /\ fetchPromise[l] = "pending"
  /\ "fulfilled" \in FetchOutcomes
  /\ fetchPromise' = [fetchPromise EXCEPT ![l] = "fulfilled"]
  /\ \E i \in 1..Len(calls) :
       /\ calls[i].op = "fetchPaginatedNodes"
       /\ calls[i].load = l
       /\ lastPageSize' = FetchFulfilledPageSize(calls[i].urlParams)
  /\ UNCHANGED <<pc, folderParam, requestUrl, userPromise, pageSize, folderId, result,
                 sessionUser, currentNode, calls, overwritten>>

\* The listing fetch rejects: the promise the loader waits for is rejected.
FetchRejected(l) ==
  /\ fetchPromise[l] = "pending"
  /\ "rejected" \in FetchOutcomes
  /\ fetchPromise' = [fetchPromise EXCEPT ![l] = "rejected"]
  /\ UNCHANGED <<pc, folderParam, requestUrl, userPromise, pageSize, folderId, result,
                 sessionUser, currentNode, lastPageSize, calls, overwritten>>

\* The loader throws after a fulfilled fetch when the route named no folder.
LoaderAfterFetchThrowsWithoutParam(l) ==
  /\ pc[l] = "awaitFetch"
  /\ fetchPromise[l] = "fulfilled"
  /\ \E i \in 1..Len(calls) :
       /\ calls[i].op = "fetchPaginatedNodes"
       /\ calls[i].load = l
       /\ result' = [result EXCEPT ![l] =
                       IF folderParam[l] = Undefined THEN NoResult
                       ELSE LoaderResult(folderId[l], requestUrl[l], calls[i].urlParams)]
  /\ pc' = [pc EXCEPT ![l] = IF folderParam[l] = Undefined THEN "failed" ELSE "returned"]
  /\ UNCHANGED <<folderParam, requestUrl, userPromise, fetchPromise, pageSize, folderId,
                 sessionUser, currentNode, lastPageSize, calls, overwritten>>

\* The loader resumes after the fulfilled fetch and returns.
LoaderAfterFetch(l) ==
  /\ pc[l] = "awaitFetch"
  /\ fetchPromise[l] = "fulfilled"
  /\ \E i \in 1..Len(calls) :
       /\ calls[i].op = "fetchPaginatedNodes"
       /\ calls[i].load = l
       /\ result' = [result EXCEPT ![l] =
                       LoaderResult(folderId[l], requestUrl[l], calls[i].urlParams)]
  /\ pc' = [pc EXCEPT ![l] = "returned"]
  /\ UNCHANGED <<folderParam, requestUrl, userPromise, fetchPromise, pageSize, folderId,
                 sessionUser, currentNode, lastPageSize, calls, overwritten>>

\* try { await dispatch(fetch) } catch {}: the rejection is swallowed and the
\* loader returns.
LoaderFetchCatch(l) ==
  /\ pc[l] = "awaitFetch"
  /\ fetchPromise[l] = "rejected"
  /\ result' = [result EXCEPT ![l] = LoaderResult(folderId[l], requestUrl[l], <<>>)]
  /\ pc' = [pc EXCEPT ![l] = "returned"]
  /\ UNCHANGED <<folderParam, requestUrl, userPromise, fetchPromise, pageSize, folderId,
                 sessionUser, currentNode, lastPageSize, calls, overwritten>>

\* The selection is cleared again when the fetch rejects.
LoaderFetchThrowRollback(l) ==
  /\ pc[l] = "awaitFetch"
  /\ fetchPromise[l] = "rejected"
  /\ pc' = [pc EXCEPT ![l] = "failed"]
  /\ currentNode' = [currentNode EXCEPT !["main"] = Null]
  /\ UNCHANGED <<folderParam, requestUrl, userPromise, fetchPromise, pageSize, folderId,
                 result, sessionUser, lastPageSize, calls, overwritten>>

\* The await of the rejected fetch throws and the loader's promise rejects.
LoaderFetchThrow(l) ==
  /\ pc[l] = "awaitFetch"
  /\ fetchPromise[l] = "rejected"
  /\ pc' = [pc EXCEPT ![l] = "failed"]
  /\ UNCHANGED <<folderParam, requestUrl, userPromise, fetchPromise, pageSize, folderId,
                 result, sessionUser, currentNode, lastPageSize, calls, overwritten>>

Next ==
  \E l \in Loads :
    \/ Navigate(l)
    \/ LoaderAfterUser(l)
    \/ LoaderUserThrow(l)
    \/ FetchFulfilled(l)
    \/ FetchRejected(l)
    \/ LoaderAfterFetch(l)
    \/ LoaderFetchThrow(l)

Spec == Init /\ [][Next]_vars

\* ------------------------------------------------------------- properties

SetNodeIndexes == {i \in 1..Len(calls) : calls[i].op = "setCurrentNode"}
FetchIndexes == {i \in 1..Len(calls) : calls[i].op = "fetchPaginatedNodes"}
SetNodeIndexesOf(l) == {i \in SetNodeIndexes : calls[i].load = l}
FetchIndexesOf(l) == {i \in FetchIndexes : calls[i].load = l}
LastSetNodeIndex == CHOOSE i \in SetNodeIndexes : \A j \in SetNodeIndexes : j <= i

\* The folder a load asks for: the explicit id when the route has a non-empty
\* one, the user's inbox folder otherwise.
RequestedFolder(l) ==
  IF folderParam[l] = Undefined \/ folderParam[l] = Str("")
  THEN sessionUser.inbox_folder_id
  ELSE folderParam[l].s

\* Decimal text of the page sizes that occur.
DecimalText(n) ==
  CASE n = 0 - 12 -> <<"-", "1", "2">>
    [] n = 0 -> <<"0">>
    [] n = 5 -> <<"5">>
    [] n = 30 -> <<"3", "0">>

\* The query parameters of the request URLs, written out.
QueryOf(href) ==
  CASE href = UrlPlain -> <<>>
    [] href = UrlQuery ->
         << <<<<"?", "z">>, <<"1">>>>,
            <<PageNumberKey, <<"3">>>>, <<<<"q">>, <<"a", " ", "b">>>>,
            <<PageSizeKey, <<"7">>>>, <<PageSizeKey, <<>>>> >>

\* C1: in every load whose user resolution succeeded, one folder id is written
\* to the selection, sent to the fetch and returned: the explicit id when it is
\* present and non-empty, the user's inbox folder id otherwise.
C1_FolderResolved ==
  \A l \in Loads :
    userPromise[l] = "fulfilled" =>
      /\ folderId[l] = RequestedFolder(l)
      /\ Cardinality(SetNodeIndexesOf(l)) = 1
      /\ Cardinality(FetchIndexesOf(l)) = 1
      /\ \A i \in SetNodeIndexesOf(l) : calls[i].node.id = RequestedFolder(l)
      /\ \A i \in FetchIndexesOf(l) : calls[i].folderId = RequestedFolder(l)
      /\ pc[l] = "returned" => result[l].folderId = RequestedFolder(l)

\* Two loads have returned, one for an explicit folder and one that fell back
\* to the inbox folder because its folder parameter was empty.
C1_Witness ==
  \E l, k \in Loads :
    /\ pc[l] = "returned" /\ folderParam[l] = Str("f-42") /\ result[l].folderId = "f-42"
    /\ pc[k] = "returned" /\ folderParam[k] = Str("")
    /\ result[k].folderId = sessionUser.inbox_folder_id

\* C2 as stated: the page_size of the fetch is lastPageSize when that is a
\* positive integer and INITIAL_PAGE_SIZE in every other case.
C2_PositiveOrDefault ==
  \A l \in Loads : \A i \in FetchIndexesOf(l) :
    GetParam(calls[i].urlParams, PageSizeKey) =
      IF pageSize[l].t = "number" /\ pageSize[l].n > 0
      THEN DecimalText(pageSize[l].n)
      ELSE DecimalText(INITIAL_PAGE_SIZE)

\* C2, amended: the page_size of the fetch is lastPageSize when that is a
\* non-zero number, negative ones included, and INITIAL_PAGE_SIZE when it is
\* absent or zero.
C2_NonZeroOrDefault ==
  \A l \in Loads : \A i \in FetchIndexesOf(l) :
    /\ HasParam(calls[i].urlParams, PageSizeKey)
    /\ GetParam(calls[i].urlParams, PageSizeKey) =
         IF pageSize[l].t = "number" /\ pageSize[l].n # 0
         THEN DecimalText(pageSize[l].n)
         ELSE DecimalText(INITIAL_PAGE_SIZE)

\* A load found a negative page size in the store, asked for it, and the fetch
\* was fulfilled.
C2_Witness ==
  \E l \in Loads :
    /\ pageSize[l] = Num(0 - 12)
    /\ pc[l] = "returned"
    /\ \E i \in FetchIndexesOf(l) :
         GetParam(calls[i].urlParams, PageSizeKey) = <<"-", "1", "2">>

\* C3: every fetch a load issues comes after that load's setCurrentNode of
\* {id: folderId, ctype: "folder", breadcrumb: null} on panel "main".
C3_SelectionBeforeFetch ==
  \A i \in FetchIndexes :
    \E j \in 1..(i - 1) :
      /\ calls[j].op = "setCurrentNode"
      /\ calls[j].load = calls[i].load
      /\ calls[j].panel = "main"
      /\ calls[j].node = [id |-> calls[i].folderId, ctype |-> "folder", breadcrumb |-> Null]

\* A load whose fetch failed had dispatched both calls.
C3_Witness ==
  \E l \in Loads :
    /\ fetchPromise[l] = "rejected"
    /\ SetNodeIndexesOf(l) # {}
    /\ FetchIndexesOf(l) # {}

\* C4: a load whose user resolution failed has failed and has called neither
\* setCurrentNode nor fetchPaginatedNodes, and the step in which it fails
\* leaves the store as it was.
C4_NoCallsAfterUserFailure ==
  \A l \in Loads :
    userPromise[l] = "rejected" =>
      /\ pc[l] = "failed"
      /\ fetchPromise[l] = "none"
      /\ \A i \in 1..Len(calls) : calls[i].load # l

C4_StoreUnchangedByFailure ==
  \A l \in Loads :
    (userPromise[l] = "pending" /\ userPromise'[l] = "rejected") =>
      /\ currentNode' = currentNode
      /\ lastPageSize' = lastPageSize
      /\ calls' = calls

C4_UserFailureLeavesStore ==
  [](C4_NoCallsAfterUserFailure) /\ [][C4_StoreUnchangedByFailure]_vars

\* A load failed at user resolution after another load had set the selection.
C4_Witness ==
  \E l, k \in Loads :
    /\ userPromise[l] = "rejected"
    /\ pc[l] = "failed"
    /\ k < l
    /\ currentNode["main"] = FolderNode(folderId[k])
    /\ SetNodeIndexesOf(k) # {}

\* C5: a load whose user resolution or whose listing fetch failed never
\* returns a value: it has failed, or its fetch has just been rejected and it
\* has not resumed yet.
C5_FailuresPropagate ==
  \A l \in Loads :
    (userPromise[l] = "rejected" \/ fetchPromise[l] = "rejected") =>
      /\ result[l] = NoResult
      /\ \/ pc[l] = "failed"
         \/ pc[l] = "awaitFetch" /\ fetchPromise[l] = "rejected"

\* One load failed at user resolution and another at the fetch.
C5_Witness ==
  \E l, k \in Loads :
    /\ userPromise[l] = "rejected" /\ pc[l] = "failed"
    /\ fetchPromise[k] = "rejected" /\ pc[k] = "failed"

\* C6: after a load has failed because its fetch failed, with no other load
\* having set the selection since, the main panel still shows
\* {id: folderId, ctype: "folder", breadcrumb: null} for the folder that load
\* asked for.
C6_SelectionKeptAfterFetchFailure ==
  \A l \in Loads :
    (/\ fetchPromise[l] = "rejected"
     /\ pc[l] = "failed"
     /\ \A i \in SetNodeIndexes : \E j \in SetNodeIndexesOf(l) : i <= j) =>
      currentNode["main"] =
        [id |-> RequestedFolder(l), ctype |-> "folder", breadcrumb |-> Null]

\* A load has failed at the fetch, no other load is in flight, and the panel
\* shows its folder.
C6_Witness ==
  \E l \in Loads :
    /\ fetchPromise[l] = "rejected"
    /\ pc[l] = "failed"
    /\ \A k \in Loads : pc[k] \notin {"awaitUser", "awaitFetch"}
    /\ currentNode["main"].id = RequestedFolder(l)
    /\ RequestedFolder(l) = "f-42"

\* C7: a load whose user resolution and whose fetch both succeeded does not
\* fail: it has returned {folderId, urlParams}, or its fetch has just been
\* fulfilled and it has not resumed yet.
C7_ReturnsWhenDependenciesSucceed ==
  \A l \in Loads :
    (userPromise[l] = "fulfilled" /\ fetchPromise[l] = "fulfilled") =>
      \/ /\ pc[l] = "returned"
         /\ result[l] # NoResult
         /\ DOMAIN result[l] = {"folderId", "urlParams"}
      \/ pc[l] = "awaitFetch"

\* Loads for every kind of folder parameter and both URLs have returned.
C7_Witness ==
  /\ \E l \in Loads :
       pc[l] = "returned" /\ folderParam[l] = Undefined /\ requestUrl[l] = UrlQuery
  /\ \E l \in Loads :
       pc[l] = "returned" /\ folderParam[l] # Undefined /\ requestUrl[l] = UrlPlain

\* C8: a load that returned gives back the folder it asked for and exactly the
\* query parameters of its request URL, not the ones built for the fetch.
C8_ReturnsRequestQuery ==
  \A l \in Loads :
    pc[l] = "returned" =>
      /\ result[l].folderId = RequestedFolder(l)
      /\ result[l].urlParams = QueryOf(requestUrl[l])
      /\ \A i \in FetchIndexesOf(l) : result[l].urlParams # calls[i].urlParams

\* A load with a remembered page size returned the query of a URL that has its
\* own page_number and page_size, another the empty query.
C8_Witness ==
  /\ \E l \in Loads :
       /\ pc[l] = "returned"
       /\ requestUrl[l] = UrlQuery
       /\ pageSize[l] = Num(30)
       /\ GetParam(result[l].urlParams, PageSizeKey) = <<"7">>
  /\ \E l \in Loads :
       pc[l] = "returned" /\ requestUrl[l] = UrlPlain /\ result[l].urlParams = <<>>

\* C9: every fetch is for panel "main" and asks for page_number 1, and names
\* page_number once.
C9_FirstPage ==
  \A i \in FetchIndexes :
    /\ calls[i].panel = "main"
    /\ HasParam(calls[i].urlParams, PageNumberKey)
    /\ GetParam(calls[i].urlParams, PageNumberKey) = <<"1">>
    /\ Cardinality({k \in 1..Len(calls[i].urlParams) :
                      calls[i].urlParams[k][1] = PageNumberKey}) = 1

\* A fetch was issued by a load whose URL asks for page_number 3, with a page
\* size remembered in the store.
C9_Witness ==
  \E l \in Loads :
    /\ requestUrl[l] = UrlQuery
    /\ pageSize[l] = Num(30)
    /\ FetchIndexesOf(l) # {}

\* C10: loads are not coordinated.  Every load that got its user has dispatched
\* its own setCurrentNode, whatever the other loads were doing, and the main
\* panel shows the node of the last setCurrentNode dispatched.
C10_LastWriteWins ==
  /\ \A l \in Loads : userPromise[l] = "fulfilled" => SetNodeIndexesOf(l) # {}
  /\ currentNode["main"] =
       IF SetNodeIndexes = {} THEN Null ELSE calls[LastSetNodeIndex].node

\* Both of two overlapping loads have returned; the one started last returned
\* its folder although the other replaced its selection while it was waiting
\* for its fetch, and the panel shows the folder of the one started first.
C10_Witness ==
  \E l, k \in Loads :
    /\ l < k
    /\ \A m \in Loads : pc[m] = "returned"
    /\ k \in overwritten
    /\ result[k].folderId # result[l].folderId
    /\ currentNode["main"].id = result[l].folderId
    /\ calls[LastSetNodeIndex].load = l

====
